---- MODULE Spec2Model ----
(***************************************************************************)
(* Rate-limited reader: the Read loop, the pacing computation and the      *)
(* control surface of the two readers of the repository that carry a       *)
(* progress counter:                                                       *)
(*   "root"  src/reader.go     (lastRead timestamp pacing)                 *)
(*   "v7"    src/v7/reader.go  (drift-corrected ledger pacing)             *)
(* One reader thread drives Read; UpdateLimit and the progress getter are  *)
(* called concurrently and interleave between the atomic steps of Read.    *)
(* The clock counts ticks of 1/Millisecond milliseconds.                   *)
(***************************************************************************)
EXTENDS Integers, Sequences, FiniteSets, TLC

\* ---------------------------------------------------------------- constants
ReadIntervalMilliseconds == 50

\* clock ticks per millisecond (time.Millisecond in units of the model clock)
Millisecond == 1000

Second == 1000 * Millisecond

\* N: pacing intervals per second, the divisor of "limit / (1000 / ReadIntervalMilliseconds)"
IntervalsPerSecond == 1000 \div ReadIntervalMilliseconds

\* one pacing interval in clock ticks
Interval == ReadIntervalMilliseconds * Millisecond

\* ------------------------------------------------------------------- bounds
\* longest caller buffer
MaxLen == 2

\* longest stream of the general specification
MaxData == 2

\* the paced specification reads MaxSeconds seconds' worth of data
MaxSeconds == 1

\* UpdateLimit calls in one behaviour of the paced specification
MaxUpdates == 1

\* longest caller buffer of the paced specification
MaxBuf == 3

\* Close calls in one behaviour of the close specification
MaxClose == 2

\* the wall clock when the reader is constructed (time.Now().UnixNano() is far
\* more than one second after the zero timestamp of a fresh ledger)
Epoch == 2 * Second

Versions == {"root", "v7"}
Errors == {"ErrIO"}

\* limits that are a multiple of the intervals per second
WholeLimits == {IntervalsPerSecond, 2 * IntervalsPerSecond}

\* one limit of every kind: negative, zero, positive below the intervals per
\* second, and paced
LimitValues == {-1, 0, 1} \cup WholeLimits

\* limits of the paced specification: L and 2L, for L a multiple of the
\* intervals per second and for L between two multiples
PacedLimits == WholeLimits \cup {(3 * IntervalsPerSecond) \div 2, 3 * IntervalsPerSecond}
Latencies == {0}

\* time a sub-read of a slow stream takes: none, half an interval, just under
\* the drift-reset threshold
SlowLatencies == {0, Interval \div 2, Second - 2 * Interval}

\* time the caller lets pass between two Read calls: under and over the
\* drift-reset threshold
PauseTimes == {Second \div 2, Second + Interval}

VARIABLES
    ver,             \* which reader is under test
    stream,          \* kind of underlying stream: "bytes" (in-memory), "slow", "progress" or "any"
    size,            \* bytes the underlying stream holds in total
    horizon,         \* the clock value at which the exploration stops
    updatesLeft,     \* UpdateLimit calls the environment still makes (-1: any number)
    limit,           \* r.limit
    iterTotalRead,   \* r.iterTotalRead (v7) / r.totalRead (root): the progress counter
    lastRead,        \* r.lastRead (root)
    lastElapsed,     \* r.lastElapsed (v7)
    timeSlept,       \* r.timeSlept (v7)
    timeAccumulated, \* r.timeAccumulated (v7)
    now,             \* the wall clock
    consumed,        \* bytes the underlying stream has handed out
    pc,              \* position of the reader thread inside Read
    chunkSize,       \* local of Read: len(p)
    p,               \* the caller's buffer: p[i] is the stream offset of the byte stored, 0 if none
    totalRead,       \* local of Read (root): the loop cursor
    iterLimit,       \* local of Read: `limit`, the sample and then the per-interval limit
    allowedBytes,    \* local of Read
    n,               \* named result n: the count of the last sub-read
    err,             \* named result err: the error of the last sub-read ("nil": none)
    noLimit,         \* v7: the iteration took the readWithoutLimit path
    retN,            \* the count the call that just returned handed to its caller
    retErr,          \* the error the call that just returned handed to its caller
    sampled,         \* history: value loaded from r.limit in the current sub-step
    sleepTime,       \* history: duration handed to time.Sleep in the current sub-step (0: none)
    slept,           \* history: sum of all durations handed to time.Sleep
    ideal,           \* history: sum of the expectedTime of all paced sub-steps
    reqAt,           \* history: bytes an in-memory stream delivered, per sampled limit
    nsub,            \* history: sub-reads issued by the current call
    got,             \* history: bytes the sub-reads of the current call returned
    allPos,          \* history: every limit sampled by the current call was positive
    eofAtEntry,      \* history: the stream was exhausted when the current call started
    lastSample,      \* history: last progress value an observer got during the current call, -1 if none
    mono,            \* history: observer samples within each call never decreased
    sched,           \* history (v7): time of the last ledger reset plus the ideal times since
    fast,            \* history (v7): since the last ledger reset every sub-read took less than
                     \*   the ideal time of the sub-step after it
    paused,          \* history (v7): the caller let time pass between calls since the last ledger reset
    lastLat,         \* history: time the last sub-read took
    hasCloser,       \* the reader was built by NewRateLimitedReadCloser (FALSE: NewRateLimitedReader)
    closes,          \* history: calls of the reader's Close
    closeCalls,      \* history: calls of the underlying stream's Close
    underRet,        \* history: what the underlying Close returned to the last Close ("none": not called)
    closeRet,        \* what the last Close returned to its caller
    readInterval,    \* the package variable ReadIntervalMilliseconds
    call             \* two goroutines calling Read on one reader: the position and locals of each

cfg == <<ver, stream, size, horizon, readInterval>>
ledger == <<lastRead, lastElapsed, timeSlept, timeAccumulated>>
locals == <<chunkSize, totalRead, iterLimit, allowedBytes, n, err, noLimit>>
result == <<retN, retErr>>
pacing == <<sampled, sleepTime, slept, ideal, reqAt>>
callhist == <<nsub, got, allPos, eofAtEntry>>
observer == <<lastSample, mono>>
drift == <<sched, fast, paused, lastLat>>
closer == <<hasCloser, closes, closeCalls, underRet, closeRet>>
\* everything that belongs to the single caller followed through pc
single == <<updatesLeft, pc, p, locals, result, pacing, callhist, observer, drift, closer>>

vars == <<cfg, call, updatesLeft, limit, iterTotalRead, ledger, now, consumed, pc, p, locals, result,
          pacing, callhist, observer, drift, closer>>

\* ------------------------------------------------------------ pure helpers
Min(a, b) == IF a < b THEN a ELSE b

\* Go's integer division truncates toward zero
GoDiv(a, b) == IF a >= 0 THEN a \div b ELSE -((-a) \div b)

\* 1000 / ReadIntervalMilliseconds, and whether "limit / (1000 /
\* ReadIntervalMilliseconds)" divides by zero: the interval is 0, or exceeds
\* 1000 so that the count of intervals per second is 0
IntervalFault == readInterval = 0 \/ 1000 \div readInterval = 0

\* limit = limit / (1000 / ReadIntervalMilliseconds)
PerInterval(l) == GoDiv(l, 1000 \div readInterval)

\* allowance that is not cut down to what is left of the buffer
Allowance_unclamped(il, left) == il

\* allowance taken from the per-second limit instead of the per-interval one
Allowance_perSecond(il, left) == Min(il * IntervalsPerSecond, left)

\* allowedBytes := limit; if chunkSizeLeft < allowedBytes { allowedBytes = chunkSizeLeft }
Allowance(il, left) == Min(il, left)

\* expected time that is a whole interval whatever the allowance
ExpectedTime_fullInterval(ab, il) == readInterval * Millisecond

\* expectedTime := allowedBytes * ReadIntervalMilliseconds * int64(time.Millisecond) / iterLimit
ExpectedTime(ab, il) == (ab * readInterval * Millisecond) \div il

InFlight == pc \in {"loop", "pace", "read", "add", "ret"}

EmptyReq == [l \in {l \in LimitValues \cup PacedLimits : l > 0} |-> 0]

\* ------------------------------------------------------ the underlying stream
\* r.reader.Read(slice) on a slice of k bytes: the set of results (count, error,
\* time taken). An in-memory stream fills the slice while data remains and then
\* reports end-of-data; a slow stream does the same and takes time; a
\* progressing stream returns at least one byte or an error; any other
\* stream may also return short, fail with bytes, deliver its last bytes
\* together with end-of-data, or take time.
UnderlyingRead(k) ==
    LET rem == size - consumed
        m == Min(k, rem)
    IN IF rem = 0
       THEN {[n |-> 0, err |-> "EOF", lat |-> 0]}
       ELSE IF stream = "bytes"
       THEN {[n |-> m, err |-> "nil", lat |-> 0]}
       ELSE IF stream = "slow"
       THEN {[n |-> m, err |-> "nil", lat |-> d] : d \in SlowLatencies}
       ELSE IF stream = "progress"
       THEN {[n |-> c, err |-> "nil", lat |-> 0] : c \in 1..m}
            \cup {[n |-> c, err |-> e, lat |-> 0] : c \in 0..m, e \in Errors}
            \cup (IF k >= rem THEN {[n |-> rem, err |-> "EOF", lat |-> 0]} ELSE {})
       ELSE {[n |-> c, err |-> "nil", lat |-> d] : c \in 0..m, d \in Latencies}
            \cup {[n |-> c, err |-> e, lat |-> 0] : c \in 0..m, e \in Errors}
            \cup (IF k >= rem THEN {[n |-> rem, err |-> "EOF", lat |-> 0]} ELSE {})

\* sleep() that sleeps the whole expected time whatever time has passed
sleep_fullTime(ab, il) ==
    LET expectedTime == (ab * readInterval * Millisecond) \div il
        raw == now - lastElapsed - timeSlept
        reset == raw > Second
        elapsed == IF reset THEN 0 ELSE raw
        le == IF reset THEN now ELSE lastElapsed
        ts == IF reset THEN 0 ELSE timeSlept
    IN [sleepTime |-> expectedTime,
        timeAccumulated |-> 0,
        timeSlept |-> IF elapsed = 0 THEN ts + expectedTime ELSE 0,
        lastElapsed |-> IF elapsed = 0 THEN le ELSE now + expectedTime,
        expectedTime |-> expectedTime,
        reset |-> reset]

\* sleep() that does not add the time it sleeps to timeSlept
sleep_forgetsSlept(ab, il) ==
    LET expectedTime == (ab * readInterval * Millisecond) \div il
        raw == now - lastElapsed - timeSlept
        reset == raw > Second
        elapsed == IF reset THEN 0 ELSE raw
        le == IF reset THEN now ELSE lastElapsed
        ta == IF reset THEN 0 ELSE timeAccumulated
        st == ta - (elapsed - expectedTime)
    IN IF st > 0
       THEN [sleepTime |-> st,
             timeAccumulated |-> 0,
             timeSlept |-> 0,
             lastElapsed |-> IF elapsed = 0 THEN le ELSE now + st,
             expectedTime |-> expectedTime,
             reset |-> reset]
       ELSE [sleepTime |-> 0,
             timeAccumulated |-> st,
             timeSlept |-> 0,
             lastElapsed |-> now,
             expectedTime |-> expectedTime,
             reset |-> reset]

\* sleep() that leaves the carried debt out of the sleep it computes
sleep_dropsDebt(ab, il) ==
    LET expectedTime == (ab * readInterval * Millisecond) \div il
        raw == now - lastElapsed - timeSlept
        reset == raw > Second
        elapsed == IF reset THEN 0 ELSE raw
        le == IF reset THEN now ELSE lastElapsed
        ts == IF reset THEN 0 ELSE timeSlept
        st == expectedTime - elapsed
    IN IF st > 0
       THEN [sleepTime |-> st,
             timeAccumulated |-> 0,
             timeSlept |-> IF elapsed = 0 THEN ts + st ELSE 0,
             lastElapsed |-> IF elapsed = 0 THEN le ELSE now + st,
             expectedTime |-> expectedTime,
             reset |-> reset]
       ELSE [sleepTime |-> 0,
             timeAccumulated |-> st,
             timeSlept |-> 0,
             lastElapsed |-> now,
             expectedTime |-> expectedTime,
             reset |-> reset]

\* sleep() that keeps the carried debt when it resets the ledger
sleep_keepsDebt(ab, il) ==
    LET expectedTime == (ab * readInterval * Millisecond) \div il
        raw == now - lastElapsed - timeSlept
        reset == raw > Second
        elapsed == IF reset THEN 0 ELSE raw
        le == IF reset THEN now ELSE lastElapsed
        ts == IF reset THEN 0 ELSE timeSlept
        st == timeAccumulated - (elapsed - expectedTime)
    IN IF st > 0
       THEN [sleepTime |-> st,
             timeAccumulated |-> 0,
             timeSlept |-> IF elapsed = 0 THEN ts + st ELSE 0,
             lastElapsed |-> IF elapsed = 0 THEN le ELSE now + st,
             expectedTime |-> expectedTime,
             reset |-> reset]
       ELSE [sleepTime |-> 0,
             timeAccumulated |-> st,
             timeSlept |-> 0,
             lastElapsed |-> now,
             expectedTime |-> expectedTime,
             reset |-> reset]

\* sleep that stores the overshoot as a positive debt when it does not sleep
sleep_positiveDebt(ab, il) ==
    LET expectedTime == (ab * readInterval * Millisecond) \div il
        raw == now - lastElapsed - timeSlept
        reset == raw > Second
        elapsed == IF reset THEN 0 ELSE raw
        le == IF reset THEN now ELSE lastElapsed
        ts == IF reset THEN 0 ELSE timeSlept
        ta == IF reset THEN 0 ELSE timeAccumulated
        st == ta - (elapsed - expectedTime)
    IN IF st > 0
       THEN [sleepTime |-> st,
             timeAccumulated |-> 0,
             timeSlept |-> IF elapsed = 0 THEN ts + st ELSE 0,
             lastElapsed |-> IF elapsed = 0 THEN le ELSE now + st,
             expectedTime |-> expectedTime,
             reset |-> reset]
       ELSE [sleepTime |-> 0,
             timeAccumulated |-> 0 - st,
             timeSlept |-> 0,
             lastElapsed |-> now,
             expectedTime |-> expectedTime,
             reset |-> reset]

\* ------------------------------------------------------------- v7: sleep()
\* The ledger after sleep(allowedBytes, iterLimit) and the duration it hands to
\* time.Sleep (0 when it does not sleep).
sleep(ab, il) ==
    LET expectedTime == ExpectedTime(ab, il)
        raw == now - lastElapsed - timeSlept
        reset == raw > Second
        elapsed == IF reset THEN 0 ELSE raw
        le == IF reset THEN now ELSE lastElapsed
        ts == IF reset THEN 0 ELSE timeSlept
        ta == IF reset THEN 0 ELSE timeAccumulated
        st == ta - (elapsed - expectedTime)
    IN IF st > 0
       THEN [sleepTime |-> st,
             timeAccumulated |-> 0,
             timeSlept |-> IF elapsed = 0 THEN ts + st ELSE 0,
             lastElapsed |-> IF elapsed = 0 THEN le ELSE now + st,
             expectedTime |-> expectedTime,
             reset |-> reset]
       ELSE [sleepTime |-> 0,
             timeAccumulated |-> st,
             timeSlept |-> 0,
             lastElapsed |-> now,
             expectedTime |-> expectedTime,
             reset |-> reset]

\* rootPace that adds the elapsed time to the sleep instead of deducting it
rootPace_addsElapsed(l, left) ==
    LET pi == GoDiv(l, 1000 \div readInterval)
        lim == IF pi <= 0 THEN chunkSize ELSE pi
        delayFactor == IF pi <= 0 THEN 0 ELSE 1
        ab == Min(lim, left)
        expectedTime == (delayFactor * ab * readInterval * Millisecond) \div lim
        elapsed == now - lastRead
    IN [iterLimit |-> lim,
        allowedBytes |-> ab,
        expectedTime |-> expectedTime,
        sleepTime |-> IF elapsed < expectedTime THEN expectedTime + elapsed ELSE 0]

\* rootPace that keeps the delay factor at 1 when the per-interval limit is <= 0
rootPace_alwaysDelay(l, left) ==
    LET pi == GoDiv(l, 1000 \div readInterval)
        lim == IF pi <= 0 THEN chunkSize ELSE pi
        ab == Min(lim, left)
        expectedTime == (ab * readInterval * Millisecond) \div lim
        elapsed == now - lastRead
    IN [iterLimit |-> lim,
        allowedBytes |-> ab,
        expectedTime |-> expectedTime,
        sleepTime |-> IF elapsed < expectedTime THEN expectedTime - elapsed ELSE 0]

\* ---------------------------------------------------------- root: pacing
\* The per-interval limit, the delay factor, the allowance and the duration
\* handed to time.Sleep by one iteration of the root reader.
rootPace(l, left) ==
    LET pi == PerInterval(l)
        lim == IF pi <= 0 THEN chunkSize ELSE pi
        delayFactor == IF pi <= 0 THEN 0 ELSE 1
        ab == Allowance(lim, left)
        expectedTime == (delayFactor * ab * readInterval * Millisecond) \div lim
        elapsed == now - lastRead
    IN [iterLimit |-> lim,
        allowedBytes |-> ab,
        expectedTime |-> expectedTime,
        sleepTime |-> IF elapsed < expectedTime THEN expectedTime - elapsed ELSE 0]

\* -------------------------------------------------------------------- Init
Threads == {1, 2}

\* a goroutine that has not called Read
NoCall == [pc |-> "idle", chunkSize |-> 0, totalRead |-> 0, limit |-> 0, allowedBytes |-> 0,
           lo |-> 0, hi |-> 0, n |-> 0, err |-> "nil", noLimit |-> FALSE,
           got |-> 0, ret |-> 0]

InitReader ==
    /\ call = [t \in Threads |-> NoCall]
    /\ iterTotalRead = 0
    /\ lastRead = 0
    /\ lastElapsed = 0
    /\ timeSlept = 0
    /\ timeAccumulated = 0
    /\ now = Epoch
    /\ consumed = 0
    /\ pc = "idle"
    /\ chunkSize = 0
    /\ p = <<>>
    /\ totalRead = 0
    /\ iterLimit = 0
    /\ allowedBytes = 0
    /\ n = 0
    /\ err = "nil"
    /\ noLimit = FALSE
    /\ retN = 0
    /\ retErr = "nil"
    /\ sampled = 0
    /\ sleepTime = 0
    /\ slept = 0
    /\ ideal = 0
    /\ reqAt = EmptyReq
    /\ nsub = 0
    /\ got = 0
    /\ allPos = TRUE
    /\ eofAtEntry = FALSE
    /\ lastSample = -1
    /\ mono = TRUE
    /\ sched = 0
    /\ fast = TRUE
    /\ paused = FALSE
    /\ lastLat = 0
    /\ closes = 0
    /\ closeCalls = 0
    /\ underRet = "none"
    /\ closeRet = "nil"

\* general specification: any stream, any limit, any number of UpdateLimit calls
Init ==
    /\ InitReader
    /\ readInterval = ReadIntervalMilliseconds
    /\ hasCloser = FALSE
    /\ ver \in Versions
    /\ limit \in LimitValues
    /\ stream = "any"
    /\ size \in 0..MaxData
    /\ horizon = Epoch + MaxLen * Interval
    /\ updatesLeft = -1

\* observer specification: the general one with a fixed limit
InitObs ==
    /\ InitReader
    /\ readInterval = ReadIntervalMilliseconds
    /\ hasCloser = FALSE
    /\ ver \in Versions
    /\ limit \in LimitValues
    /\ stream = "any"
    /\ size \in 0..MaxData
    /\ horizon = Epoch + MaxLen * Interval
    /\ updatesLeft = 0

\* paced specification: the drift-corrected reader on an in-memory stream that
\* holds a whole number of seconds' worth of data at the initial limit
InitPaced ==
    /\ InitReader
    /\ readInterval = ReadIntervalMilliseconds
    /\ hasCloser = FALSE
    /\ ver = "v7"
    /\ limit \in PacedLimits
    /\ stream = "bytes"
    /\ size \in {s * limit : s \in 1..MaxSeconds}
    /\ horizon = Epoch + 2 * MaxSeconds * Second + 2 * Interval
    /\ updatesLeft = MaxUpdates

\* interval specification: the general one under a fixed limit, with the
\* package variable ReadIntervalMilliseconds assigned before construction
IntervalValues == {0, ReadIntervalMilliseconds, 2 * ReadIntervalMilliseconds, 2 * 1000}

InitInterval ==
    /\ InitReader
    /\ readInterval \in IntervalValues
    /\ hasCloser = FALSE
    /\ ver \in Versions
    /\ limit \in LimitValues
    /\ stream = "any"
    /\ size \in 0..MaxData
    /\ horizon = Epoch + MaxLen * Interval
    /\ updatesLeft = 0

\* ----------------------------------------------------------------- Read
\* Read that leaves the progress counter as the previous call left it
Read_noReset(len) ==
    /\ \/ pc = "idle"
       \/ pc = "done" /\ (retErr = "nil" \/ stream = "any")
    /\ pc' = "loop"
    /\ retN' = 0
    /\ retErr' = "nil"
    /\ totalRead' = iterTotalRead
    /\ chunkSize' = len
    /\ p' = [i \in 1..len |-> 0]
    /\ nsub' = 0
    /\ got' = 0
    /\ allPos' = TRUE
    /\ eofAtEntry' = (consumed = size)
    /\ lastSample' = -1
    /\ err' = "nil"
    /\ UNCHANGED <<cfg, call, closer, drift, updatesLeft, limit, iterTotalRead, ledger, now, consumed, iterLimit,
                   allowedBytes, n, noLimit, pacing, mono>>

\* Read that enters with the error the previous call left in err
Read_staleErr(len) ==
    /\ \/ pc = "idle"
       \/ pc = "done" /\ (retErr = "nil" \/ stream = "any")
    /\ pc' = "loop"
    /\ retN' = 0
    /\ retErr' = "nil"
    /\ iterTotalRead' = 0
    /\ totalRead' = 0
    /\ chunkSize' = len
    /\ p' = [i \in 1..len |-> 0]
    /\ nsub' = 0
    /\ got' = 0
    /\ allPos' = TRUE
    /\ eofAtEntry' = (consumed = size)
    /\ lastSample' = -1
    /\ UNCHANGED <<cfg, call, closer, drift, updatesLeft, limit, ledger, now, consumed, iterLimit, allowedBytes,
                   n, err, noLimit, pacing, mono>>

\* Read entry (pc "idle": no call yet, "done": the previous call has returned):
\* the progress counter is reset and len(p) is taken. The caller of an
\* in-memory stream stops calling at the first error or end-of-data.
Read(len) ==
    /\ \/ pc = "idle"
       \/ pc = "done" /\ (retErr = "nil" \/ stream = "any")
    /\ pc' = "loop"
    /\ retN' = 0
    /\ retErr' = "nil"
    /\ iterTotalRead' = 0
    /\ totalRead' = 0
    /\ chunkSize' = len
    /\ p' = [i \in 1..len |-> 0]
    /\ nsub' = 0
    /\ got' = 0
    /\ allPos' = TRUE
    /\ eofAtEntry' = (consumed = size)
    /\ lastSample' = -1
    /\ err' = "nil"
    /\ UNCHANGED <<cfg, call, closer, drift, updatesLeft, limit, ledger, now, consumed, iterLimit, allowedBytes,
                   n, noLimit, pacing, mono>>

\* the loop cursor the loop condition and the slice bounds read
Cursor == IF ver = "v7" THEN iterTotalRead ELSE totalRead

\* Sample that loads the limit once per call and reuses it in later iterations
Sample_once ==
    /\ pc = "loop"
    /\ IF (IF ver = "v7" THEN iterTotalRead ELSE totalRead) < chunkSize
       THEN /\ pc' = "pace"
            /\ iterLimit' = (IF nsub = 0 THEN limit ELSE sampled)
            /\ sampled' = (IF nsub = 0 THEN limit ELSE sampled)
            /\ allPos' = (allPos /\ limit > 0)
       ELSE /\ pc' = "ret"
            /\ UNCHANGED <<iterLimit, sampled, allPos>>
    /\ sleepTime' = 0
    /\ UNCHANGED <<cfg, call, closer, drift, updatesLeft, limit, iterTotalRead, ledger, now, consumed, p, chunkSize,
                   totalRead, allowedBytes, n, err, noLimit, result, slept, ideal, reqAt,
                   nsub, got, eofAtEntry, observer>>

\* Loop head: the loop condition, then the atomic load of the limit.
Sample ==
    /\ pc = "loop"
    /\ IF Cursor < chunkSize
       THEN /\ pc' = "pace"
            /\ iterLimit' = limit
            /\ sampled' = limit
            /\ allPos' = (allPos /\ limit > 0)
       ELSE /\ pc' = "ret"
            /\ UNCHANGED <<iterLimit, sampled, allPos>>
    /\ sleepTime' = 0
    /\ UNCHANGED <<cfg, call, closer, drift, updatesLeft, limit, iterTotalRead, ledger, now, consumed, p, chunkSize, totalRead,
                   allowedBytes, n, err, noLimit, result, slept, ideal, reqAt,
                   nsub, got, eofAtEntry, observer>>

\* v7, limit <= 0: the rest of the buffer goes to readWithoutLimit, no pacing.
PaceNoLimit_v7 ==
    /\ pc = "pace" /\ ver = "v7"
    /\ iterLimit <= 0
    /\ pc' = "read"
    /\ noLimit' = TRUE
    /\ allowedBytes' = chunkSize - iterTotalRead
    /\ UNCHANGED <<cfg, call, closer, drift, updatesLeft, limit, iterTotalRead, ledger, now, consumed, p, chunkSize, totalRead,
                   iterLimit, n, err, result, pacing, callhist, observer>>

\* v7, limit > 0: per-interval limit, allowance, then sleep(allowedBytes, limit).
\* A per-interval limit of 0 makes sleep() divide by zero: the call panics. So
\* does an interval that makes the per-interval division divide by zero.
Pace_v7 ==
    /\ pc = "pace" /\ ver = "v7"
    /\ iterLimit > 0
    /\ IF IntervalFault
       THEN /\ pc' = "panic"
            /\ UNCHANGED <<iterLimit, allowedBytes, ledger, now, sleepTime, slept, ideal,
                           sched, fast, paused>>
       ELSE LET il == PerInterval(iterLimit)
                ab == Allowance(il, chunkSize - iterTotalRead)
            IN /\ iterLimit' = il
               /\ allowedBytes' = ab
               /\ IF il = 0
                  THEN /\ pc' = "panic"
                       /\ UNCHANGED <<ledger, now, sleepTime, slept, ideal, sched, fast, paused>>
                  ELSE LET s == sleep(ab, il)
                       IN /\ now + s.sleepTime <= horizon
                          /\ pc' = "read"
                          /\ now' = now + s.sleepTime
                          /\ lastElapsed' = s.lastElapsed
                          /\ timeSlept' = s.timeSlept
                          /\ timeAccumulated' = s.timeAccumulated
                          /\ sleepTime' = s.sleepTime
                          /\ slept' = slept + s.sleepTime
                          /\ ideal' = ideal + s.expectedTime
                          /\ sched' = (IF s.reset THEN now ELSE sched) + s.expectedTime
                          /\ fast' = (s.reset \/ (fast /\ lastLat < s.expectedTime))
                          /\ paused' = (~s.reset /\ paused)
                          /\ UNCHANGED lastRead
    /\ UNCHANGED <<cfg, call, closer, lastLat, updatesLeft, limit, iterTotalRead, consumed, p, chunkSize, totalRead,
                   n, err, noLimit, result, sampled, reqAt, callhist, observer>>

\* root: per-interval limit (a result <= 0 means the whole buffer and no delay),
\* allowance, sleep for what is left of the expected time, stamp lastRead.
Pace_root ==
    /\ pc = "pace" /\ ver = "root"
    /\ IF IntervalFault
       THEN /\ pc' = "panic"
            /\ UNCHANGED <<iterLimit, allowedBytes, now, lastRead, sleepTime, slept, ideal>>
       ELSE LET s == rootPace(iterLimit, chunkSize - totalRead)
            IN /\ now + s.sleepTime <= horizon
               /\ pc' = "read"
               /\ iterLimit' = s.iterLimit
               /\ allowedBytes' = s.allowedBytes
               /\ now' = now + s.sleepTime
               /\ lastRead' = now + s.sleepTime
               /\ sleepTime' = s.sleepTime
               /\ slept' = slept + s.sleepTime
               /\ ideal' = ideal + s.expectedTime
    /\ UNCHANGED <<cfg, call, closer, drift, updatesLeft, limit, iterTotalRead, lastElapsed, timeSlept, timeAccumulated,
                   consumed, p, chunkSize, totalRead, n, err, noLimit, result,
                   sampled, reqAt, callhist, observer>>

\* SubRead that hands the stream the start of the buffer instead of the slice
\* at the cursor
SubRead_atStart ==
    /\ pc = "read"
    /\ nsub <= chunkSize
    /\ \E o \in UnderlyingRead(allowedBytes) :
          /\ now + o.lat <= horizon
          /\ n' = o.n
          /\ err' = o.err
          /\ now' = now + o.lat
          /\ lastLat' = o.lat
          /\ consumed' = consumed + o.n
          /\ p' = [i \in 1..chunkSize |->
                      IF i <= o.n THEN consumed + i ELSE p[i]]
          /\ got' = got + o.n
          /\ reqAt' = IF stream = "bytes" /\ sampled > 0
                       THEN [reqAt EXCEPT ![sampled] = @ + o.n] ELSE reqAt
    /\ pc' = "add"
    /\ nsub' = nsub + 1
    /\ UNCHANGED <<cfg, call, closer, sched, fast, paused, updatesLeft, limit, iterTotalRead, ledger, chunkSize, totalRead, iterLimit,
                   allowedBytes, noLimit, result, sampled, sleepTime, slept, ideal,
                   allPos, eofAtEntry, observer>>

\* The one sub-read of the iteration, on p[cursor : cursor+allowedBytes]. A
\* stream may keep returning 0 bytes and no error: a call is followed for
\* len(p) + 1 sub-reads.
SubRead ==
    /\ pc = "read"
    /\ nsub <= chunkSize
    /\ \E o \in UnderlyingRead(allowedBytes) :
          /\ now + o.lat <= horizon
          /\ n' = o.n
          /\ err' = o.err
          /\ now' = now + o.lat
          /\ lastLat' = o.lat
          /\ consumed' = consumed + o.n
          /\ p' = [i \in 1..chunkSize |->
                      IF i > Cursor /\ i <= Cursor + o.n THEN consumed + (i - Cursor) ELSE p[i]]
          /\ got' = got + o.n
          /\ reqAt' = IF stream = "bytes" /\ sampled > 0
                       THEN [reqAt EXCEPT ![sampled] = @ + o.n] ELSE reqAt
    /\ pc' = "add"
    /\ nsub' = nsub + 1
    /\ UNCHANGED <<cfg, call, closer, sched, fast, paused, updatesLeft, limit, iterTotalRead, ledger, chunkSize, totalRead, iterLimit,
                   allowedBytes, noLimit, result, sampled, sleepTime, slept, ideal,
                   allPos, eofAtEntry, observer>>

\* Account_v7 that does not add the sub-read's count to the progress counter
Account_v7_noAdd ==
    /\ pc = "add" /\ ver = "v7"
    /\ iterTotalRead' = iterTotalRead
    /\ pc' = IF noLimit \/ err # "nil" THEN "ret" ELSE "loop"
    /\ UNCHANGED <<cfg, call, closer, drift, updatesLeft, limit, ledger, now, consumed, p, locals, result, pacing,
                   callhist, observer>>

\* Account_v7 that returns on an error before adding the failing sub-read's count
Account_v7_dropsFailing ==
    /\ pc = "add" /\ ver = "v7"
    /\ iterTotalRead' = (IF err # "nil" THEN iterTotalRead ELSE iterTotalRead + n)
    /\ pc' = IF noLimit \/ err # "nil" THEN "ret" ELSE "loop"
    /\ UNCHANGED <<cfg, call, closer, drift, updatesLeft, limit, ledger, now, consumed, p, locals, result, pacing,
                   callhist, observer>>

\* v7: add the count to the progress counter; the unlimited path returns at
\* once, an error breaks the loop.
Account_v7 ==
    /\ pc = "add" /\ ver = "v7"
    /\ iterTotalRead' = iterTotalRead + n
    /\ pc' = IF noLimit \/ err # "nil" THEN "ret" ELSE "loop"
    /\ UNCHANGED <<cfg, call, closer, drift, updatesLeft, limit, ledger, now, consumed, p, locals, result, pacing,
                   callhist, observer>>

\* Account_root that stores the sub-read's count instead of adding it
Account_root_store ==
    /\ pc = "add" /\ ver = "root"
    /\ iterTotalRead' = n
    /\ totalRead' = n
    /\ pc' = IF err # "nil" \/ n = 0 THEN "ret" ELSE "loop"
    /\ UNCHANGED <<cfg, call, closer, drift, updatesLeft, limit, ledger, now, consumed, p, chunkSize, iterLimit,
                   allowedBytes, n, err, noLimit, result, pacing, callhist, observer>>

\* root: add the count to the progress counter, reload the cursor from it; an
\* error breaks the loop.
Account_root ==
    /\ pc = "add" /\ ver = "root"
    /\ iterTotalRead' = iterTotalRead + n
    /\ totalRead' = iterTotalRead + n
    /\ pc' = IF err # "nil" THEN "ret" ELSE "loop"
    /\ UNCHANGED <<cfg, call, closer, drift, updatesLeft, limit, ledger, now, consumed, p, chunkSize, iterLimit,
                   allowedBytes, n, err, noLimit, result, pacing, callhist, observer>>

\* return int(r.iterTotalRead.Load()), err. The locals of the call die; err is
\* kept as the record of the last sub-read's error until the next call.
Return ==
    /\ pc = "ret"
    /\ pc' = "done"
    /\ retN' = iterTotalRead
    /\ retErr' = err
    /\ iterLimit' = 0
    /\ allowedBytes' = 0
    /\ n' = 0
    /\ noLimit' = FALSE
    /\ sampled' = 0
    /\ sleepTime' = 0
    /\ UNCHANGED <<cfg, call, closer, drift, updatesLeft, limit, iterTotalRead, ledger, now, consumed, p, chunkSize,
                   totalRead, err, slept, ideal, reqAt, callhist, observer>>

\* ------------------------------------------------------- control surface
UpdateLimit(newLimit) ==
    /\ updatesLeft # 0
    /\ updatesLeft' = IF updatesLeft > 0 THEN updatesLeft - 1 ELSE updatesLeft
    /\ limit' = newLimit
    /\ UNCHANGED <<cfg, call, closer, drift, iterTotalRead, ledger, now, consumed, pc, p, locals, result,
                   pacing, callhist, observer>>

\* GetCurrentIterTotalRead (v7) / GetCurrentTotalRead (root), called by an observer
GetCurrentTotalRead ==
    /\ InFlight
    /\ lastSample' = iterTotalRead
    /\ mono' = (mono /\ iterTotalRead >= lastSample)
    /\ UNCHANGED <<cfg, call, closer, drift, updatesLeft, limit, iterTotalRead, ledger, now, consumed, pc, p, locals, result,
                   pacing, callhist>>

Next ==
    \/ \E len \in 0..MaxLen : Read(len)
    \/ Sample
    \/ PaceNoLimit_v7
    \/ Pace_v7
    \/ Pace_root
    \/ SubRead
    \/ Account_v7
    \/ Account_root
    \/ Return
    \/ \E l \in LimitValues : UpdateLimit(l)

Spec == Init /\ [][Next]_vars

NextInterval ==
    \/ \E len \in 0..MaxLen : Read(len)
    \/ Sample
    \/ PaceNoLimit_v7
    \/ Pace_v7
    \/ Pace_root
    \/ SubRead
    \/ Account_v7
    \/ Account_root
    \/ Return

SpecInterval == InitInterval /\ [][NextInterval]_vars

\* control-surface specification: either reader on an in-memory stream, built
\* with a whole positive limit, with UpdateLimit and the progress getter called
\* at any moment
InitSurface ==
    /\ InitReader
    /\ readInterval = ReadIntervalMilliseconds
    /\ hasCloser = FALSE
    /\ ver \in Versions
    /\ limit \in WholeLimits
    /\ stream = "bytes"
    /\ size \in 0..MaxData
    /\ horizon = Epoch + MaxLen * Interval
    /\ updatesLeft = MaxUpdates

NextSurface ==
    \/ \E len \in 0..MaxLen : Read(len)
    \/ Sample
    \/ PaceNoLimit_v7
    \/ Pace_v7
    \/ Pace_root
    \/ SubRead
    \/ Account_v7
    \/ Account_root
    \/ Return
    \/ \E l \in LimitValues : UpdateLimit(l)
    \/ GetCurrentTotalRead

SpecSurface == InitSurface /\ [][NextSurface]_vars

\* progress specification: either reader on a stream whose every Read returns
\* at least one byte or an error; the goroutine inside Read keeps running
InitProgress ==
    /\ InitReader
    /\ readInterval = ReadIntervalMilliseconds
    /\ hasCloser = FALSE
    /\ ver \in Versions
    /\ limit \in LimitValues
    /\ stream \in {"progress", "bytes"}
    /\ size \in {0, 1, MaxBuf}
    /\ horizon = Epoch + Second
    /\ updatesLeft = MaxUpdates

\* the steps of the goroutine that is inside Read
ReadStep ==
    \/ Sample
    \/ PaceNoLimit_v7
    \/ Pace_v7
    \/ Pace_root
    \/ SubRead
    \/ Account_v7
    \/ Account_root
    \/ Return

NextProgress ==
    \/ \E len \in 0..MaxBuf : Read(len)
    \/ ReadStep
    \/ \E l \in LimitValues : UpdateLimit(l)

SpecProgress == InitProgress /\ [][NextProgress]_vars /\ WF_vars(ReadStep)


NextObs ==
    \/ \E len \in 0..MaxLen : Read(len)
    \/ Sample
    \/ PaceNoLimit_v7
    \/ Pace_v7
    \/ Pace_root
    \/ SubRead
    \/ Account_v7
    \/ Account_root
    \/ Return
    \/ GetCurrentTotalRead

SpecObs == InitObs /\ [][NextObs]_vars

\* the update of the paced runs: the limit is doubled
Doubled == {l \in PacedLimits : l = 2 * limit}

NextPaced ==
    \/ \E len \in 0..MaxBuf : Read(len)
    \/ Sample
    \/ Pace_v7
    \/ SubRead
    \/ Account_v7
    \/ Return
    \/ \E l \in Doubled : UpdateLimit(l)

SpecPaced == InitPaced /\ [][NextPaced]_vars

\* Close that releases the underlying stream on the first call only
Close_once ==
    /\ closes < MaxClose
    /\ closes' = closes + 1
    /\ IF hasCloser /\ closeCalls = 0
       THEN \E e \in {"nil", "ErrClose"} :
               /\ closeCalls' = closeCalls + 1
               /\ underRet' = e
               /\ closeRet' = e
       ELSE /\ closeCalls' = closeCalls
            /\ underRet' = "none"
            /\ closeRet' = "nil"
    /\ UNCHANGED <<cfg, call, hasCloser, drift, updatesLeft, limit, iterTotalRead, ledger, now, consumed,
                   pc, p, locals, result, pacing, callhist, observer>>

\* return r.reader.Close(): the stream given to NewRateLimitedReadCloser, or the
\* io.NopCloser that NewRateLimitedReader wrapped around a plain stream
Close ==
    /\ closes < MaxClose
    /\ closes' = closes + 1
    /\ IF hasCloser
       THEN \E e \in {"nil", "ErrClose"} :
               /\ closeCalls' = closeCalls + 1
               /\ underRet' = e
               /\ closeRet' = e
       ELSE /\ closeCalls' = closeCalls
            /\ underRet' = "none"
            /\ closeRet' = "nil"
    /\ UNCHANGED <<cfg, call, hasCloser, drift, updatesLeft, limit, iterTotalRead, ledger, now, consumed,
                   pc, p, locals, result, pacing, callhist, observer>>

\* close specification: the general one under a fixed limit, built by either
\* constructor, with Close called at any moment
InitClose ==
    /\ InitReader
    /\ readInterval = ReadIntervalMilliseconds
    /\ hasCloser \in BOOLEAN
    /\ ver \in Versions
    /\ limit \in LimitValues
    /\ stream = "any"
    /\ size \in 0..MaxData
    /\ horizon = Epoch + MaxLen * Interval
    /\ updatesLeft = 0

NextClose ==
    \/ \E len \in 0..MaxLen : Read(len)
    \/ Sample
    \/ PaceNoLimit_v7
    \/ Pace_v7
    \/ Pace_root
    \/ SubRead
    \/ Account_v7
    \/ Account_root
    \/ Return
    \/ Close

SpecClose == InitClose /\ [][NextClose]_vars

\* the caller lets time pass between two Read calls
Pause(d) ==
    /\ pc \in {"idle", "done"}
    /\ now + d <= horizon
    /\ now' = now + d
    /\ paused' = TRUE
    /\ UNCHANGED <<cfg, call, closer, sched, fast, lastLat, updatesLeft, limit, iterTotalRead, ledger, consumed, pc, p,
                   locals, result, pacing, callhist, observer>>

\* drift specification: either reader on a slow in-memory stream, with a
\* caller that pauses between calls and a limit that may change
InitDrift ==
    /\ InitReader
    /\ readInterval = ReadIntervalMilliseconds
    /\ hasCloser = FALSE
    /\ ver \in Versions
    /\ limit \in WholeLimits
    /\ stream = "slow"
    /\ size \in 1..MaxData
    /\ horizon = Epoch + (MaxSeconds + 1) * Second
    /\ updatesLeft = MaxUpdates

NextDrift ==
    \/ \E len \in 1..MaxLen : Read(len)
    \/ Sample
    \/ Pace_v7
    \/ Pace_root
    \/ SubRead
    \/ Account_v7
    \/ Account_root
    \/ Return
    \/ \E d \in PauseTimes : Pause(d)
    \/ \E l \in WholeLimits : UpdateLimit(l)

SpecDrift == InitDrift /\ [][NextDrift]_vars

\* tracking specification: one Read call on a buffer that takes the whole
\* in-memory stream, under a fixed positive limit, with an observer of the
\* progress counter
InitTrack ==
    /\ InitReader
    /\ readInterval = ReadIntervalMilliseconds
    /\ hasCloser = FALSE
    /\ ver \in Versions
    /\ limit \in PacedLimits
    /\ stream = "bytes"
    /\ size \in {s * limit : s \in 1..(MaxSeconds + 1)}
    /\ horizon = Epoch + (MaxSeconds + 1) * Second + Interval
    /\ updatesLeft = 0

\* the one call: the buffer is as long as the data
ReadAll == pc = "idle" /\ Read(size)

NextTrack ==
    \/ ReadAll
    \/ Sample
    \/ Pace_v7
    \/ Pace_root
    \/ SubRead
    \/ Account_v7
    \/ Account_root
    \/ Return
    \/ GetCurrentTotalRead

SpecTrack == InitTrack /\ [][NextTrack]_vars

\* ------------------------------------------------------------ v3 variant
\* src/v3/reader.go: the limit is bytes per second with no sub-division, there
\* is no progress counter, and Read returns from inside the loop on an error.
V3Limits == {1} \cup WholeLimits

InitV3 ==
    /\ InitReader
    /\ readInterval = ReadIntervalMilliseconds
    /\ hasCloser = FALSE
    /\ ver = "v3"
    /\ limit \in V3Limits
    /\ stream \in {"bytes", "any"}
    /\ size \in 0..MaxData
    /\ horizon = Epoch + (MaxData + 1) * Second
    /\ updatesLeft = 0

\* v3 Read entry: var totalRead int64; chunkSize := int64(len(p))
Read_v3(len) ==
    /\ ver = "v3"
    /\ pc \in {"idle", "done"}
    /\ pc' = "loop"
    /\ retN' = 0
    /\ retErr' = "nil"
    /\ totalRead' = 0
    /\ chunkSize' = len
    /\ p' = [i \in 1..len |-> 0]
    /\ nsub' = 0
    /\ got' = 0
    /\ allPos' = TRUE
    /\ eofAtEntry' = (consumed = size)
    /\ lastSample' = -1
    /\ err' = "nil"
    /\ UNCHANGED <<cfg, call, closer, drift, updatesLeft, limit, iterTotalRead, ledger, now, consumed,
                   iterLimit, allowedBytes, n, noLimit, pacing, mono>>

\* v3: allowance from the per-second limit, expectedTime = allowedBytes *
\* time.Second / limit, sleep for what is left of it. A limit of 0 divides by
\* zero; a negative limit gives a negative allowance and the slice expression
\* faults after the sleep.
Pace_v3 ==
    /\ pc = "pace" /\ ver = "v3"
    /\ IF iterLimit = 0
       THEN /\ pc' = "panic"
            /\ UNCHANGED <<allowedBytes, now, sleepTime, slept>>
       ELSE LET left == chunkSize - totalRead
                ab == IF left < iterLimit THEN left ELSE iterLimit
                expectedTime == IF iterLimit < 0 THEN Second ELSE (ab * Second) \div iterLimit
                elapsed == now - lastRead
                st == IF elapsed < expectedTime THEN expectedTime - elapsed ELSE 0
            IN /\ now + st <= horizon
               /\ allowedBytes' = ab
               /\ now' = now + st
               /\ sleepTime' = st
               /\ slept' = slept + st
               /\ pc' = IF ab < 0 THEN "panic" ELSE "read"
    /\ UNCHANGED <<cfg, call, closer, drift, updatesLeft, limit, iterTotalRead, ledger, consumed, p, chunkSize,
                   totalRead, iterLimit, n, err, noLimit, result, sampled, ideal, reqAt, callhist, observer>>

\* v3: an error leaves the loop at once, before the count is added; otherwise
\* totalRead += int64(n); r.lastRead = time.Now()
Account_v3 ==
    /\ pc = "add" /\ ver = "v3"
    /\ IF err # "nil"
       THEN /\ pc' = "ret"
            /\ UNCHANGED <<totalRead, lastRead>>
       ELSE /\ pc' = "loop"
            /\ totalRead' = totalRead + n
            /\ lastRead' = now
    /\ UNCHANGED <<cfg, call, closer, drift, updatesLeft, limit, iterTotalRead, lastElapsed, timeSlept,
                   timeAccumulated, now, consumed, p, chunkSize, iterLimit, allowedBytes, n, err,
                   noLimit, result, pacing, callhist, observer>>

\* v3: if err == io.EOF { return int(totalRead), nil }; return int(totalRead), err;
\* after the loop return int(totalRead), nil
Return_v3 ==
    /\ pc = "ret" /\ ver = "v3"
    /\ pc' = "done"
    /\ retN' = totalRead
    /\ retErr' = (IF err = "EOF" THEN "nil" ELSE err)
    /\ iterLimit' = 0
    /\ allowedBytes' = 0
    /\ n' = 0
    /\ noLimit' = FALSE
    /\ sampled' = 0
    /\ sleepTime' = 0
    /\ UNCHANGED <<cfg, call, closer, drift, updatesLeft, limit, iterTotalRead, ledger, now, consumed, p, chunkSize,
                   totalRead, err, slept, ideal, reqAt, callhist, observer>>

NextV3 ==
    \/ \E len \in 0..MaxLen : Read_v3(len)
    \/ Sample
    \/ Pace_v3
    \/ SubRead
    \/ Account_v3
    \/ Return_v3

SpecV3 == InitV3 /\ [][NextV3]_vars

\* ------------------------------------------------- two goroutines in Read
\* Two goroutines call Read on one reader. Each atomic load, store and add of
\* the progress counter is a step of its own; sleep() and the underlying Read
\* are taken as one step each. The single caller followed through pc stays idle.
TwoLimits == {0} \cup WholeLimits

InitTwo ==
    /\ InitReader
    /\ readInterval = ReadIntervalMilliseconds
    /\ hasCloser = FALSE
    /\ ver \in Versions
    /\ limit \in TwoLimits
    /\ stream = "bytes"
    /\ size \in 0..(MaxData + 1)
    /\ horizon = Epoch + Second
    /\ updatesLeft = 0

\* p[lo:hi] on a buffer of capacity c: Go panics unless 0 <= lo <= hi <= c
SliceOK(lo, hi, c) == 0 <= lo /\ lo <= hi /\ hi <= c

\* r.iterTotalRead.Store(0); chunkSize := int64(len(p))
ReadBy(t, len) ==
    /\ call[t].pc = "idle"
    /\ iterTotalRead' = 0
    /\ call' = [call EXCEPT ![t] = [NoCall EXCEPT !.pc = "test", !.chunkSize = len]]
    /\ UNCHANGED <<cfg, single, limit, ledger, now, consumed>>

\* for r.iterTotalRead.Load() < chunkSize (root: for totalRead < chunkSize)
LoopTest(t) ==
    /\ call[t].pc = "test"
    /\ LET cursor == IF ver = "v7" THEN iterTotalRead ELSE call[t].totalRead
       IN call' = [call EXCEPT ![t].pc = IF cursor < call[t].chunkSize THEN "limit" ELSE "ret"]
    /\ UNCHANGED <<cfg, single, limit, iterTotalRead, ledger, now, consumed>>

\* limit := r.limit.Load(); v7 turns to readWithoutLimit when it is <= 0
LoadLimit(t) ==
    /\ call[t].pc = "limit"
    /\ call' = [call EXCEPT ![t] =
                   [@ EXCEPT !.limit = limit,
                             !.noLimit = (ver = "v7" /\ limit <= 0),
                             !.pc = IF ver = "v7" /\ limit <= 0 THEN "lo" ELSE "pace"]]
    /\ UNCHANGED <<cfg, single, limit, iterTotalRead, ledger, now, consumed>>

\* v7: per-interval limit, chunkSizeLeft from a load of the counter, allowance,
\* sleep(allowedBytes, limit)
SleepBy_v7(t) ==
    /\ call[t].pc = "pace" /\ ver = "v7"
    /\ LET il == PerInterval(call[t].limit)
           ab == Allowance(il, call[t].chunkSize - iterTotalRead)
       IN IF il = 0
          THEN /\ call' = [call EXCEPT ![t].pc = "panic"]
               /\ UNCHANGED <<ledger, now>>
          ELSE LET s == sleep(ab, il)
               IN /\ now + s.sleepTime <= horizon
                  /\ call' = [call EXCEPT ![t] =
                                 [@ EXCEPT !.limit = il, !.allowedBytes = ab, !.pc = "lo"]]
                  /\ now' = now + s.sleepTime
                  /\ lastElapsed' = s.lastElapsed
                  /\ timeSlept' = s.timeSlept
                  /\ timeAccumulated' = s.timeAccumulated
                  /\ UNCHANGED lastRead
    /\ UNCHANGED <<cfg, single, limit, iterTotalRead, consumed>>

\* root: per-interval limit, allowance from the local cursor, sleep, stamp
\* lastRead, slice p[totalRead : totalRead+allowedBytes]. r.lastRead is a plain
\* field the other goroutine writes: the elapsed time read from it is any
\* value, so the sleep is nothing or the whole expected time.
SleepBy_root(t) ==
    /\ call[t].pc = "pace" /\ ver = "root"
    /\ LET pi == PerInterval(call[t].limit)
           lim == IF pi <= 0 THEN call[t].chunkSize ELSE pi
           delayFactor == IF pi <= 0 THEN 0 ELSE 1
           ab == Allowance(lim, call[t].chunkSize - call[t].totalRead)
           expectedTime == (delayFactor * ab * readInterval * Millisecond) \div lim
           lo == call[t].totalRead
           hi == call[t].totalRead + ab
       IN \E d \in {0, expectedTime} :
             /\ now + d <= horizon
             /\ now' = now + d
             /\ lastRead' = now + d
             /\ call' = [call EXCEPT ![t] =
                            [@ EXCEPT !.limit = lim, !.allowedBytes = ab, !.lo = lo, !.hi = hi,
                                      !.pc = IF SliceOK(lo, hi, call[t].chunkSize)
                                             THEN "sub" ELSE "panic"]]
    /\ UNCHANGED <<cfg, single, limit, iterTotalRead, lastElapsed, timeSlept, timeAccumulated, consumed>>

\* v7: the low bound of the slice is a load of the counter; on the unlimited
\* path the slice is p[r.iterTotalRead.Load():int(chunkSize)]
SliceLo(t) ==
    /\ call[t].pc = "lo" /\ ver = "v7"
    /\ call' = [call EXCEPT ![t] =
                   IF call[t].noLimit
                   THEN [@ EXCEPT !.lo = iterTotalRead, !.hi = call[t].chunkSize,
                                  !.pc = IF SliceOK(iterTotalRead, call[t].chunkSize, call[t].chunkSize)
                                         THEN "sub" ELSE "panic"]
                   ELSE [@ EXCEPT !.lo = iterTotalRead, !.pc = "hi"]]
    /\ UNCHANGED <<cfg, single, limit, iterTotalRead, ledger, now, consumed>>

\* v7: the high bound is another load of the counter plus allowedBytes
SliceHi(t) ==
    /\ call[t].pc = "hi" /\ ver = "v7"
    /\ LET hi == iterTotalRead + call[t].allowedBytes
       IN call' = [call EXCEPT ![t] =
                      [@ EXCEPT !.hi = hi,
                                !.pc = IF SliceOK(call[t].lo, hi, call[t].chunkSize)
                                       THEN "sub" ELSE "panic"]]
    /\ UNCHANGED <<cfg, single, limit, iterTotalRead, ledger, now, consumed>>

\* r.reader.Read(p[lo:hi]) on the in-memory stream
SubReadBy(t) ==
    /\ call[t].pc = "sub"
    /\ LET rem == size - consumed
           m == Min(call[t].hi - call[t].lo, rem)
       IN /\ consumed' = consumed + m
          /\ call' = [call EXCEPT ![t] =
                         [@ EXCEPT !.n = m, !.err = IF rem = 0 THEN "EOF" ELSE "nil",
                                   !.got = @ + m, !.pc = "add"]]
    /\ UNCHANGED <<cfg, single, limit, iterTotalRead, ledger, now>>

\* an accounting step that keeps the count to the goroutine
AddBy_local(t) ==
    /\ call[t].pc = "add"
    /\ call' = [call EXCEPT ![t] =
                   [@ EXCEPT !.totalRead = @ + call[t].n,
                             !.pc = IF ver = "root" THEN "reload"
                                    ELSE IF call[t].noLimit \/ call[t].err # "nil" THEN "ret"
                                    ELSE "test"]]
    /\ UNCHANGED <<cfg, single, limit, iterTotalRead, ledger, now, consumed>>

\* r.iterTotalRead.Add(int64(n)) (root: atomic.AddInt64(&r.totalRead, int64(n)))
AddBy(t) ==
    /\ call[t].pc = "add"
    /\ iterTotalRead' = iterTotalRead + call[t].n
    /\ call' = [call EXCEPT ![t].pc =
                   IF ver = "root" THEN "reload"
                   ELSE IF call[t].noLimit \/ call[t].err # "nil" THEN "ret"
                   ELSE "test"]
    /\ UNCHANGED <<cfg, single, limit, ledger, now, consumed>>

\* root: totalRead = atomic.LoadInt64(&r.totalRead); if err != nil { break }
ReloadBy(t) ==
    /\ call[t].pc = "reload" /\ ver = "root"
    /\ call' = [call EXCEPT ![t] =
                   [@ EXCEPT !.totalRead = iterTotalRead,
                             !.pc = IF call[t].err # "nil" THEN "ret" ELSE "test"]]
    /\ UNCHANGED <<cfg, single, limit, iterTotalRead, ledger, now, consumed>>

\* return int(r.iterTotalRead.Load()), err
ReturnBy(t) ==
    /\ call[t].pc = "ret"
    /\ call' = [call EXCEPT ![t] = [@ EXCEPT !.ret = iterTotalRead, !.pc = "done"]]
    /\ UNCHANGED <<cfg, single, limit, iterTotalRead, ledger, now, consumed>>

NextTwo ==
    \E t \in Threads :
        \/ \E len \in 1..MaxLen : ReadBy(t, len)
        \/ LoopTest(t)
        \/ LoadLimit(t)
        \/ SleepBy_v7(t)
        \/ SleepBy_root(t)
        \/ SliceLo(t)
        \/ SliceHi(t)
        \/ SubReadBy(t)
        \/ AddBy(t)
        \/ ReloadBy(t)
        \/ ReturnBy(t)

SpecTwo == InitTwo /\ [][NextTwo]_vars

\* ======================================================================
\* Claims
\* ======================================================================

\* bytes of the caller's buffer not yet filled
Left == chunkSize - Cursor

\* C1: for any positive limit and any non-empty buffer a Read call never
\* faults and never returns 0 bytes with a nil error.
C1_ForwardProgress ==
    /\ pc # "panic"
    /\ ((pc = "done" /\ chunkSize > 0 /\ allPos) => (retN > 0 \/ retErr # "nil"))

\* C2: whenever Read returns a nil error the returned count equals len(p),
\* for every limit value.
C2_NilMeansFull ==
    (pc = "done" /\ retErr = "nil") => retN = chunkSize

\* C3: once a sub-read has returned an error other than end-of-data, the call
\* issues no further sub-read and returns that error with the count of all
\* bytes its sub-reads obtained, the failing one included.
C3_ErrorPropagation ==
    /\ []((pc = "done" /\ err \notin {"nil", "EOF"}) => (retErr = err /\ retN = got))
    /\ [][(pc \in {"add", "ret"} /\ err \notin {"nil", "EOF"}) => (nsub' = nsub /\ got' = got)]_vars

C3_Witness ==
    pc = "done" /\ retErr = "ErrIO" /\ nsub >= 2 /\ retN = chunkSize

\* C4: a call in which a sub-read returned end-of-data returns the accumulated
\* count together with io.EOF; a call with a non-empty buffer that starts on
\* the exhausted stream ends by returning 0 and io.EOF.
C4_EndOfData ==
    /\ ((pc = "done" /\ err = "EOF") => (retErr = "EOF" /\ retN = got))
    /\ ((pc \in {"done", "panic"} /\ eofAtEntry /\ consumed > 0 /\ chunkSize > 0)
           => (pc = "done" /\ retN = 0 /\ retErr = "EOF"))

\* C6: a sub-step whose sampled limit is <= 0 issues no pacing sleep and its
\* allowance is the whole remaining buffer.
C6_UnlimitedBypass ==
    (pc = "read" /\ sampled <= 0) => (sleepTime = 0 /\ allowedBytes = Left)

C6_Witness ==
    pc = "read" /\ sampled < 0 /\ ver = "root" /\ Cursor > 0 /\ allowedBytes = Left

\* C7: every sub-step loads the limit once, at its start, and gets the value
\* stored last; its allowance is derived from that sample; UpdateLimit changes
\* neither the progress counter nor the caller's buffer.
C7_UpdateLimitNextSample ==
    /\ [][(pc = "loop" /\ pc' = "pace") => (sampled' = limit)]_vars
    /\ []((pc = "read" /\ ver = "v7") =>
            (allowedBytes = (IF sampled <= 0 THEN Left
                             ELSE IF sampled \div IntervalsPerSecond < Left
                                  THEN sampled \div IntervalsPerSecond ELSE Left)))
    /\ [][(limit' # limit) => (iterTotalRead' = iterTotalRead /\ p' = p /\ pc' = pc)]_vars

\* in v7 a sub-step past the first can reach the unlimited path only after
\* UpdateLimit replaced a positive limit during the call
C7_Witness ==
    pc = "read" /\ ver = "v7" /\ nsub >= 1 /\ iterTotalRead > 0 /\ sampled <= 0 /\ limit = sampled

\* C9: the progress values an observer gets while a Read call is in flight
\* never decrease and never exceed the count the call returns.
C9_ProgressVisibility ==
    /\ mono
    /\ lastSample <= iterTotalRead
    /\ (pc = "done" => lastSample <= retN)

C9_Witness ==
    pc = "done" /\ lastSample > 0 /\ lastSample < retN

\* C10: a Read call resets the progress counter to 0 before its first
\* sub-step, and once it has returned the counter holds the returned count
\* until the next call starts.
C10_PerCallCounter ==
    /\ ((InFlight /\ nsub = 0) => iterTotalRead = 0)
    /\ (pc = "done" => iterTotalRead = retN)

C10_Witness ==
    pc = "loop" /\ nsub = 0 /\ consumed > 0 /\ iterTotalRead = 0

\* ---------------------------------------------------------------- pacing
Abs(x) == IF x < 0 THEN -x ELSE x

\* the stream answers at once and the caller calls again at once: the clock
\* only advances in pacing sleeps
Instant == now = Epoch + slept

\* no UpdateLimit call so far: the limit is the one given at construction
FixedLimit == updatesLeft = MaxUpdates

\* S/L seconds at limit l
SecondsAt(l) == (size * Second) \div l

\* the sub-read that has just returned delivered the last byte of the stream
LastByteIn == pc = "add" /\ n > 0 /\ consumed = size

\* the call that has just returned delivered the last byte of the stream
LastCallDone == pc = "done" /\ got > 0 /\ consumed = size

\* the drift-corrected reader on an instant stream, called back to back
PacedRun == stream = "bytes" /\ ver = "v7" /\ Instant

\* a fixed limit that is a multiple of N, and a whole number of seconds of data
FixedRun ==
    /\ PacedRun /\ FixedLimit
    /\ limit > 0 /\ limit % IntervalsPerSecond = 0 /\ size % limit = 0

\* C5 as stated: under a fixed limit L, a multiple of N, the pacing time of
\* reading all S bytes, through calls of any buffer size, is within one
\* interval of S/L seconds.
C5_RateConvergence ==
    (FixedRun /\ LastCallDone) => Abs(slept - SecondsAt(limit)) <= Interval

\* C5 amended: the pacing time is within one interval of S/L seconds when the
\* last byte is delivered, and the call that delivers it returns less than one
\* further interval later.
C5_RateConvergenceAmended ==
    /\ (FixedRun /\ LastByteIn) => Abs(slept - SecondsAt(limit)) <= Interval
    /\ (FixedRun /\ LastCallDone) =>
           (/\ slept - SecondsAt(limit) >= -Interval
            /\ slept - SecondsAt(limit) < 2 * Interval)

\* the last buffer reaches past the end of the data: a short sub-read, then a
\* paced sub-read that finds end-of-data
C5_Witness ==
    FixedRun /\ LastCallDone /\ retErr = "EOF" /\ slept - SecondsAt(limit) > Interval

\* half of the data was delivered in sub-steps that sampled l, half in
\* sub-steps that sampled 2l
HalfAndHalf(l) ==
    /\ PacedRun
    /\ 2 * l \in PacedLimits
    /\ size % l = 0
    /\ 2 * reqAt[l] = size
    /\ 2 * reqAt[2 * l] = size

\* 3/4 of S/l seconds
ThreeQuarters(l) == (3 * SecondsAt(l)) \div 4

\* C8 as stated: with an instant stream the pacing time is the sum of the ideal
\* times of the sub-steps, each computed with the limit it sampled; half of the
\* data at L and half at 2L take 3/4 of S/L seconds, within one interval.
C8_DynamicUpdateTiming ==
    /\ PacedRun => slept = ideal
    /\ \A l \in PacedLimits :
          (HalfAndHalf(l) /\ LastByteIn) => Abs(slept - ThreeQuarters(l)) <= Interval

\* C8 amended: the sum rule as stated; the 3/4 example for L a multiple of N,
\* within one interval when the last byte is delivered and less than one
\* further interval when the delivering call returns.
C8_DynamicUpdateTimingAmended ==
    /\ PacedRun => slept = ideal
    /\ \A l \in PacedLimits :
          (HalfAndHalf(l) /\ l % IntervalsPerSecond = 0) =>
              /\ LastByteIn => Abs(slept - ThreeQuarters(l)) <= Interval
              /\ LastCallDone => (/\ slept - ThreeQuarters(l) >= -Interval
                                  /\ slept - ThreeQuarters(l) < 2 * Interval)

\* 10 bytes at 20 B/s then 10 bytes at 40 B/s: 0.5 s + 0.25 s
C8_Witness ==
    /\ HalfAndHalf(IntervalsPerSecond) /\ LastByteIn
    /\ size = IntervalsPerSecond
    /\ 4 * slept = 3 * Second

\* ------------------------------------------------------ progress and rate
\* the single call of the tracking specification started at Epoch: t whole
\* seconds later
SecondsIn(t) == InFlight /\ stream = "bytes" /\ Instant /\ now = Epoch + t * Second

SubReadStarts == pc = "read" /\ ver = "v7" /\ sampled > 0

\* C12 as stated: under a fixed positive limit, while every sub-read takes
\* less than the ideal time of the sub-step after it, each sub-read starts
\* exactly at the time of the last ledger reset plus the ideal times so far,
\* and no debt is carried.
C12_DriftResilience ==
    (SubReadStarts /\ FixedLimit /\ fast) => (now = sched /\ timeAccumulated = 0)

\* C12 amended: the same while, in addition, the caller lets no time pass
\* between one Read call and the next.
C12_DriftResilienceAmended ==
    (SubReadStarts /\ FixedLimit /\ fast /\ ~paused) => (now = sched /\ timeAccumulated = 0)

\* the previous sub-read took half an interval and the sleep was shortened by
\* as much
C12_Witness ==
    /\ SubReadStarts /\ FixedLimit /\ fast /\ ~paused /\ nsub >= 1
    /\ lastLat = Interval \div 2
    /\ sleepTime = Interval - Interval \div 2
    /\ now = sched

\* C13: the debt never exceeds the drift-reset threshold of one second, so no
\* more than one second's worth of the limit is ever requested without a
\* pacing sleep.
C13_BoundedDebt ==
    Abs(timeAccumulated) <= Second

\* ---------------------------------------------------------- data integrity
\* C14: the first `got` bytes of the caller's buffer are the bytes the stream
\* handed to this call, in stream order with no gap, duplicate or overwrite;
\* every sub-read is given the slice that starts at the sum of the counts so
\* far and lies in the buffer; the count returned is the number of bytes
\* delivered.
C14_DataIntegrity ==
    /\ pc \in {"loop", "pace", "read", "add", "ret", "done"} =>
          (got <= chunkSize /\ \A i \in 1..got : p[i] = consumed - got + i)
    /\ pc = "read" => (Cursor = got /\ allowedBytes >= 0 /\ Cursor + allowedBytes <= chunkSize)
    /\ pc = "done" => retN = got

\* a call that filled a two-byte buffer in more than one sub-read
C14_Witness ==
    /\ pc = "done" /\ nsub >= 2 /\ retN = 2
    /\ p[1] = consumed - 1 /\ p[2] = consumed

\* -------------------------------------------------------------- allowance
\* the allowance a sub-step is to compute from the limit it sampled and the
\* bytes of the buffer still to fill
AllowanceOf(l, remaining) ==
    IF l <= 0 THEN remaining
    ELSE IF l \div IntervalsPerSecond >= 1 THEN Min(remaining, l \div IntervalsPerSecond)
    ELSE remaining

\* C15: in every sub-step the allowance is the whole remainder for a sampled
\* limit <= 0, min(remainder, limit / N) when limit / N >= 1, and the whole
\* remainder, never zero, when a positive limit / N rounds to zero.
C15_AllowanceFunction ==
    pc \in {"read", "panic"} =>
        (allowedBytes = AllowanceOf(sampled, Left) /\ allowedBytes > 0)

\* ------------------------------------------------------------------ Close
\* C16: every Close on a reader built with NewRateLimitedReadCloser calls the
\* underlying Close once and returns its result; on a reader built with
\* NewRateLimitedReader it calls nothing and returns nil; Close leaves the
\* limit, the progress counter and the timing ledger alone.
C16_CloseDelegation ==
    [][(closes' # closes) =>
          /\ (hasCloser => (closeCalls' = closeCalls + 1 /\ closeRet' = underRet'))
          /\ (~hasCloser => (closeCalls' = closeCalls /\ closeRet' = "nil"))
          /\ limit' = limit
          /\ iterTotalRead' = iterTotalRead
          /\ ledger' = ledger]_vars

\* the second Close of a reader with a release, during a Read call, relayed
\* the error of the underlying Close
C16_Witness ==
    hasCloser /\ closes = 2 /\ closeCalls = 2 /\ closeRet = "ErrClose" /\ InFlight /\ nsub >= 1

\* ------------------------------------------------------ rate change latency
\* C17: the sleep of a sub-step is at most its ideal time, which is at most
\* one pacing interval; and from any point of a Read call the next load of
\* the limit comes after at most one pacing sleep and one sub-read, and takes
\* the value UpdateLimit stored.
C17_RateChangeLatency ==
    /\ [][(pc = "pace" /\ pc' = "read") =>
             /\ now' - now = sleepTime'
             /\ sleepTime' <= ideal' - ideal
             /\ ideal' - ideal <= Interval]_vars
    /\ [][/\ (pc = "pace" => pc' \in {"pace", "read", "panic"})
          /\ (pc = "read" => pc' \in {"read", "add"})
          /\ (pc = "add" => pc' \in {"add", "loop", "ret"})
          /\ ((pc = "loop" /\ pc' = "pace") => sampled' = limit)]_vars

\* after an UpdateLimit a sub-step sampled the new limit and slept half an
\* interval, the rest of its ideal time having passed in the sub-read before
C17_Witness ==
    /\ pc = "read" /\ ~FixedLimit /\ sampled = limit /\ nsub >= 1
    /\ lastLat = Interval \div 2
    /\ sleepTime = Interval - Interval \div 2

\* ------------------------------------------------------ interval validation
\* C18: construction rejects an interval that is zero or leaves no whole
\* interval in a second, so every Read call runs with at least one interval
\* per second and none faults because of the interval.
C18_IntervalValidation ==
    (InFlight \/ pc \in {"done", "panic"}) =>
        (~IntervalFault /\ 1000 \div readInterval >= 1)

\* --------------------------------------------------------- virtual schedule
Max(a, b) == IF a > b THEN a ELSE b

\* a pacing step of the drift-corrected reader that does not reset the ledger
PacedStep ==
    /\ ver = "v7" /\ pc = "pace" /\ pc' = "read" /\ ~noLimit'
    /\ now - lastElapsed - timeSlept <= Second

\* ideal time - time since the previous sub-read started + carried debt
Due == (ideal' - ideal) - (now - lastElapsed - timeSlept) + timeAccumulated

\* C20: without a ledger reset a sub-step sleeps max(0, ideal - elapsed + debt),
\* a value <= 0 becoming the carried debt and a value > 0 clearing it;
\* equivalently the schedule advances by the ideal time and the sub-read starts
\* at max(now, schedule), so no sub-read starts before the reset time plus the
\* ideal times since.
C20_VirtualSchedule ==
    /\ [][PacedStep =>
             /\ sleepTime' = Max(0, Due)
             /\ now' = now + sleepTime'
             /\ timeAccumulated' = (IF Due <= 0 THEN Due ELSE 0)
             /\ sched' = sched + (ideal' - ideal)
             /\ now' = Max(now, sched')]_vars
    /\ [](SubReadStarts => now >= sched)

\* a second sub-step in a row finds the schedule behind after a sub-read that
\* took 900 ms: it does not sleep and carries the debt less its own ideal time
C20_Witness ==
    /\ SubReadStarts /\ sleepTime = 0 /\ lastLat = 0
    /\ timeAccumulated = 2 * Interval - (Second - 2 * Interval)
    /\ now - sched = -timeAccumulated

\* ------------------------------------------------------- concurrent Reads
\* no other goroutine has called Read
Alone(t) == \A u \in Threads \ {t} : call[u].pc = "idle"

\* C19: two Read calls on one instance use the one progress counter as their
\* cursor: each call zeroes it on entry, adds its sub-read counts to it, takes
\* its slice bounds (v7) or its local cursor (root) from it and returns it. A
\* call running alone returns the bytes its sub-reads obtained and slices
\* inside its buffer; with a second call interleaved there are runs where it
\* does not.
C19_ConcurrentReadsUnsafe ==
    /\ [][\A t \in Threads :
            /\ (call[t].pc = "idle" /\ call'[t].pc = "test") => iterTotalRead' = 0
            /\ (call[t].pc = "add" /\ call'[t].pc # "add") =>
                   iterTotalRead' = iterTotalRead + call[t].n
            /\ (call[t].pc = "lo" /\ call'[t].pc # "lo") => call'[t].lo = iterTotalRead
            /\ (call[t].pc = "hi" /\ call'[t].pc # "hi") =>
                   call'[t].hi = iterTotalRead + call[t].allowedBytes
            /\ (call[t].pc = "reload" /\ call'[t].pc # "reload") =>
                   call'[t].totalRead = iterTotalRead
            /\ (call[t].pc = "ret" /\ call'[t].pc = "done") => call'[t].ret = iterTotalRead]_vars
    /\ [](\A t \in Threads :
            Alone(t) => /\ call[t].pc # "panic"
                        /\ call[t].pc \in {"sub", "add"} =>
                               SliceOK(call[t].lo, call[t].hi, call[t].chunkSize)
                        /\ call[t].pc = "done" => call[t].ret = call[t].got)

\* one call returned a count other than the bytes its sub-reads obtained, the
\* other computed a slice that ends beyond its buffer
C19_Witness ==
    /\ call[1].pc = "done" /\ call[1].ret # call[1].got
    /\ call[2].pc = "panic" /\ call[2].hi > call[2].chunkSize

\* --------------------------------------------------------- ledger reset
\* a pacing step of the drift-corrected reader that begins more than a second
\* after lastElapsed + timeSlept
ResetStep ==
    /\ ver = "v7" /\ pc = "pace" /\ pc' = "read" /\ ~noLimit'
    /\ now - lastElapsed - timeSlept > Second

\* C21: a paced sub-step that begins more than one second after the previous
\* boundary resets the ledger (no debt, timestamp now, time slept only its own
\* sleep) and sleeps its whole ideal time; the boundary and the schedule after
\* it are the moment its sub-read starts, so later sub-steps pay nothing back.
C21_LedgerReset ==
    [][ResetStep =>
          /\ sleepTime' = ideal' - ideal
          /\ now' = now + sleepTime'
          /\ timeAccumulated' = 0
          /\ lastElapsed' = now
          /\ timeSlept' = sleepTime'
          /\ lastElapsed' + timeSlept' = now'
          /\ sched' = now']_vars

\* after a sub-step that carried a debt the caller paused for more than a
\* second, and the next sub-step slept a whole interval
C21_Witness ==
    /\ SubReadStarts /\ nsub = 0 /\ consumed >= 1
    /\ now >= Epoch + Second + 2 * Interval
    /\ sleepTime = Interval /\ timeSlept = Interval /\ lastElapsed = now - Interval
    /\ timeAccumulated = 0 /\ sched = now /\ ~paused

\* ------------------------------------------------------ sub-step protocol
\* C22: an iteration under a positive limit loads the limit once, derives the
\* per-interval limit, the allowance and the ideal time from that one sample,
\* sleeps, issues one underlying Read on a slice of allowance bytes and adds
\* the count to the progress counter, in this order and whatever UpdateLimit
\* does meanwhile.
C22_SubStepProtocol ==
    [][/\ (pc = "loop" /\ pc' = "pace") => sampled' = limit
       /\ (pc = "pace" /\ sampled > 0) =>
              /\ pc' \in {"pace", "read"}
              /\ pc' = "read" =>
                    /\ iterLimit' = (IF sampled \div IntervalsPerSecond > 0
                                     THEN sampled \div IntervalsPerSecond ELSE chunkSize)
                    /\ allowedBytes' = Min(iterLimit', Left)
                    /\ ideal' - ideal = (IF sampled \div IntervalsPerSecond > 0
                                         THEN (allowedBytes' * Interval) \div iterLimit' ELSE 0)
                    /\ now' - now = sleepTime'
                    /\ nsub' = nsub /\ iterTotalRead' = iterTotalRead
       /\ (pc = "read" /\ sampled > 0) =>
              /\ pc' \in {"read", "add"}
              /\ pc' = "add" =>
                    /\ nsub' = nsub + 1
                    /\ n' >= 0 /\ n' <= allowedBytes
                    /\ iterTotalRead' = iterTotalRead
       /\ (pc = "add" /\ sampled > 0) =>
              /\ pc' \in {"add", "loop", "ret"}
              /\ pc' # "add" => (iterTotalRead' = iterTotalRead + n /\ nsub' = nsub)]_vars

\* ------------------------------------------------- unlimited mode, ledger
\* C23: a sub-step whose sampled limit is <= 0 leaves lastElapsed, timeSlept,
\* timeAccumulated and lastRead as they were.
C23_UnlimitedLedgerUntouched ==
    [][(pc \in {"pace", "read", "add"} /\ sampled <= 0) => ledger' = ledger]_vars

\* ------------------------------------------------- control-surface frame
\* everything of the reader and the call in flight except the stored limit
ReadState == <<iterTotalRead, ledger, now, consumed, pc, p, locals, result>>

\* C24: UpdateLimit changes only the stored limit and the progress getter
\* changes nothing of the reader, and with both called at any point a Read
\* call on an in-memory stream still ends with the next min(len(p), remaining)
\* bytes of the stream in its buffer.
C24_ControlSurfaceFrame ==
    /\ [][(limit' # limit) => ReadState' = ReadState]_vars
    /\ [][(lastSample' # lastSample /\ lastSample' # -1) =>
             (lastSample' = iterTotalRead /\ limit' = limit /\ ReadState' = ReadState)]_vars
    /\ []((pc \in {"done", "panic"} /\ chunkSize > 0) =>
             /\ pc = "done"
             /\ retN = Min(chunkSize, size - (consumed - got))
             /\ \A i \in 1..retN : p[i] = consumed - got + i)

\* ------------------------------------------------------------ termination
CeilDiv(a, b) == (a + b - 1) \div b

\* the allowance of every sub-step but the last under the limit l on a buffer
\* of len bytes
FullAllowance(l, len) ==
    IF l <= 0 \/ l \div IntervalsPerSecond = 0 THEN len
    ELSE Min(l \div IntervalsPerSecond, len)

C26_BoundsInvariant ==
    /\ (InFlight \/ pc \in {"done", "panic"}) =>
           (0 <= iterTotalRead /\ iterTotalRead <= chunkSize /\ 0 <= Cursor /\ Cursor <= chunkSize)
    /\ pc = "read" => (allowedBytes >= 1 /\ Cursor + allowedBytes <= chunkSize)
    /\ pc = "add" => (0 <= n /\ Cursor + n <= chunkSize)
    /\ pc = "done" => (0 <= retN /\ retN <= chunkSize)

\* a sub-read past the first is given the last byte of the buffer
C26_Witness ==
    /\ pc = "read" /\ nsub >= 1 /\ Cursor >= 1
    /\ allowedBytes = 1 /\ Cursor + allowedBytes = chunkSize

\* ------------------------------------------------------ zero-length buffer
\* C27: a Read call with len(p) = 0 goes from the entry to the loop test to the
\* return: it zeroes the progress counter, loads no limit, issues no sleep and
\* no sub-read, leaves the limit, the ledger, the clock and the stream as they
\* were, and returns (0, nil).
C27_ZeroLengthBuffer ==
    /\ [][(chunkSize' = 0 /\ pc' # pc) =>
             /\ pc' \in {"loop", "ret", "done"}
             /\ iterTotalRead' = 0
             /\ nsub' = 0
             /\ limit' = limit /\ ledger' = ledger /\ now' = now
             /\ consumed' = consumed /\ slept' = slept]_vars
    /\ []((pc = "done" /\ chunkSize = 0) => (retN = 0 /\ retErr = "nil"))

\* a zero-length call returned after an earlier call had delivered bytes and
\* failed
C27_Witness ==
    /\ pc = "done" /\ chunkSize = 0 /\ retN = 0 /\ retErr = "nil"
    /\ consumed >= 1 /\ iterTotalRead = 0 /\ nsub = 0

\* -------------------------------------------------------- first sub-step
\* the pacing step of a drift-corrected reader whose ledger was never written
FirstPacedStep ==
    /\ ver = "v7" /\ pc = "pace" /\ pc' # pc /\ sampled > 0
    /\ lastElapsed = 0 /\ timeSlept = 0 /\ timeAccumulated = 0

\* C28: on a fresh drift-corrected reader the first sub-step under a positive
\* limit resets the ledger and sleeps its whole ideal time before the first
\* underlying Read, so under a fixed positive limit no byte is delivered
\* before one ideal slot has passed.
C28_FirstSubStep ==
    /\ [][FirstPacedStep =>
             /\ pc' = "read"
             /\ ideal' - ideal > 0
             /\ sleepTime' = ideal' - ideal
             /\ now' = now + sleepTime'
             /\ lastElapsed' = now /\ timeSlept' = sleepTime' /\ timeAccumulated' = 0
             /\ consumed' = consumed /\ nsub' = nsub]_vars
    /\ []((ver = "v7" /\ FixedLimit /\ limit > 0 /\ consumed > 0) =>
             (slept > 0 /\ now - Epoch >= Interval \div Max(1, limit \div IntervalsPerSecond)))

\* ------------------------------------------------------- v3: end-of-data
\* C29: in the v3 variant a Read call with a non-empty buffer that starts
\* after the stream is exhausted returns 0 bytes together with end-of-data.
C29_EndOfDataV3 ==
    (ver = "v3" /\ pc = "done" /\ eofAtEntry /\ chunkSize > 0) =>
        (retN = 0 /\ retErr = "EOF")

\* ------------------------------------------------------- debt sign
\* a sub-step of the drift-corrected reader under a positive limit passes
\* through sleep()
SleepStep == ver = "v7" /\ pc = "pace" /\ pc' = "read" /\ sampled > 0

\* C30: in the drift-corrected reader timeAccumulated is <= 0 and timeSlept is
\* >= 0 in every reachable state; timeAccumulated is 0 right after a sub-step
\* that slept and right after a reset; the debt never makes a sleep longer
\* than the sub-step's ideal time.
C30_DebtSign ==
    /\ [](ver = "v7" => (timeAccumulated <= 0 /\ timeSlept >= 0))
    /\ [][SleepStep =>
             /\ (sleepTime' > 0 => timeAccumulated' = 0)
             /\ (now - lastElapsed - timeSlept > Second => timeAccumulated' = 0)
             /\ sleepTime' <= ideal' - ideal]_vars

\* a sub-read slower than the interval left a debt, and the sub-step that
\* follows starts without sleeping
C30_Witness ==
    /\ ver = "v7" /\ SubReadStarts /\ nsub >= 1
    /\ lastLat > Interval
    /\ timeAccumulated < 0 /\ timeSlept = 0 /\ sleepTime = 0
    /\ lastElapsed = now

====
